---- MODULE Spec2Model ----
(***************************************************************************)
(* tools/generate_tags.py and tools/cleanup_invalid_tags.py.               *)
(*                                                                         *)
(* Text is a sequence of one-character strings.  Positions in the          *)
(* operators that model Python code are Python's 0-based indices, so that  *)
(* every index expression can be read against the source line it models;   *)
(* At and Slice translate them to TLA+'s 1-based sequences.                 *)
(***************************************************************************)
EXTENDS Integers, Sequences, FiniteSets, TLC

NL == "\n"
DQ == "\""
SQ == "'"

(* None, as a value comparable with the character sequences that are names. *)
None == <<"None">>

----------------------------------------------------------------------------
(* Python str primitives used by both tools.                                *)

(* str.isspace of one character: what \s, strip() and lstrip() remove. *)
IsSpace(c) == c \in {" ", NL, "\t"}

UpperLetters ==
  <<"A","B","C","D","E","F","G","H","I","J","K","L","M",
    "N","O","P","Q","R","S","T","U","V","W","X","Y","Z">>
LowerLetters ==
  <<"a","b","c","d","e","f","g","h","i","j","k","l","m",
    "n","o","p","q","r","s","t","u","v","w","x","y","z">>
Digits == <<"0","1","2","3","4","5","6","7","8","9">>

(* [A-Z] *)
IsUpper(c) == \E i \in 1..26 : UpperLetters[i] = c

(* \w, as \b reads it *)
IsWord(c) ==
  \/ \E i \in 1..26 : UpperLetters[i] = c \/ LowerLetters[i] = c
  \/ \E i \in 1..10 : Digits[i] = c
  \/ c = "_"

(* re.IGNORECASE compares letters after case folding. *)
Fold(c) ==
  IF IsUpper(c) THEN LowerLetters[CHOOSE i \in 1..26 : UpperLetters[i] = c] ELSE c

(* The code point order of the characters the model uses: sorted() compares
   strings by code point. *)
CodeOrder ==
  <<NL, " ", DQ, "#", SQ, "-", ".", "/">> \o Digits \o <<":", "=">>
  \o UpperLetters \o <<"_">> \o LowerLetters \o <<"{", "}">>

Ord(c) == CHOOSE i \in 1..Len(CodeOrder) : CodeOrder[i] = c

(* s < t for two str values *)
RECURSIVE StrLess(_, _)
StrLess(s, t) ==
  IF t = << >> THEN FALSE
  ELSE IF s = << >> THEN TRUE
  ELSE IF Head(s) = Head(t) THEN StrLess(Tail(s), Tail(t))
  ELSE Ord(Head(s)) < Ord(Head(t))

(* t[i] *)
At(t, i) == t[i + 1]

(* t[a:b] for 0 <= a *)
Slice(t, a, b) ==
  LET e == IF b > Len(t) THEN Len(t) ELSE b
  IN IF a >= e THEN << >> ELSE SubSeq(t, a + 1, e)

(* t.find(c, from): the first index >= from holding c, or -1 *)
RECURSIVE FindChar(_, _, _)
FindChar(t, c, from) ==
  IF from >= Len(t) THEN -1
  ELSE IF At(t, from) = c THEN from
  ELSE FindChar(t, c, from + 1)

(* t.rfind(c, 0, end): the last index < end holding c, or -1 *)
RECURSIVE RFindChar(_, _, _)
RFindChar(t, c, end) ==
  IF end <= 0 THEN -1
  ELSE IF end <= Len(t) /\ At(t, end - 1) = c THEN end - 1
  ELSE RFindChar(t, c, end - 1)

(* t.count(c) for a one-character c *)
RECURSIVE CountChar(_, _)
CountChar(t, c) ==
  IF t = << >> THEN 0
  ELSE (IF Head(t) = c THEN 1 ELSE 0) + CountChar(Tail(t), c)

(* t.startswith(p) *)
StartsWith(t, p) == Len(t) >= Len(p) /\ SubSeq(t, 1, Len(p)) = p

(* The first index >= i that holds no whitespace (Len(t) when there is none). *)
RECURSIVE SkipSpace(_, _)
SkipSpace(t, i) ==
  IF i < Len(t) /\ IsSpace(At(t, i)) THEN SkipSpace(t, i + 1) ELSE i

(* t.lstrip() *)
LStrip(t) == Slice(t, SkipSpace(t, 0), Len(t))

(* t.rstrip() *)
RECURSIVE RStrip(_)
RStrip(t) ==
  IF t # << >> /\ IsSpace(t[Len(t)]) THEN RStrip(SubSeq(t, 1, Len(t) - 1)) ELSE t

(* t.strip() *)
Strip(t) == RStrip(LStrip(t))

(* t.lstrip(c) for a one-character c *)
RECURSIVE LStripChar(_, _)
LStripChar(t, c) ==
  IF t # << >> /\ Head(t) = c THEN LStripChar(Tail(t), c) ELSE t

(* t.splitlines(): the lines without their terminators; a final terminator
   opens no further line, and the empty text has no line. *)
RECURSIVE SplitLinesFrom(_, _, _)
SplitLinesFrom(t, start, i) ==
  IF i >= Len(t)
  THEN IF start < Len(t) THEN << Slice(t, start, Len(t)) >> ELSE << >>
  ELSE IF At(t, i) = NL
       THEN << Slice(t, start, i) >> \o SplitLinesFrom(t, i + 1, i + 1)
       ELSE SplitLinesFrom(t, start, i + 1)

SplitLines(t) == SplitLinesFrom(t, 0, 0)

(* sep.join(parts) *)
RECURSIVE Join(_, _)
Join(parts, sep) ==
  IF parts = << >> THEN << >>
  ELSE IF Len(parts) = 1 THEN parts[1]
  ELSE parts[1] \o sep \o Join(Tail(parts), sep)

(* s.startswith('#') or s.startswith('//') *)
IsCommentLine(s) == StartsWith(s, <<"#">>) \/ StartsWith(s, <<"/", "/">>)

----------------------------------------------------------------------------
(* generate_tags.py: strip_inline_comments                                  *)

(* StripLine without the quote count: every # outside a comment line cuts. *)
StripLineAnyHash(line) ==
  IF IsCommentLine(Strip(line)) THEN line
  ELSE IF FindChar(line, "#", 0) >= 0 THEN Slice(line, 0, FindChar(line, "#", 0))
  ELSE line

(* One iteration of the loop over text.splitlines(). *)
StripLine(line) ==
  LET s == Strip(line)
  IN IF IsCommentLine(s) THEN line
     ELSE IF FindChar(line, "#", 0) >= 0
          THEN LET part0 == Slice(line, 0, FindChar(line, "#", 0))
               IN IF CountChar(part0, DQ) % 2 = 0 /\ CountChar(part0, SQ) % 2 = 0
                  THEN part0
                  ELSE line
          ELSE line

strip_inline_comments(text) ==
  LET lines == SplitLines(text)
  IN Join([i \in 1..Len(lines) |-> StripLine(lines[i])], <<NL>>)

----------------------------------------------------------------------------
(* generate_tags.py: the compiled patterns                                  *)

IsQuote(c) == c = DQ \/ c = SQ

(* ^ under re.MULTILINE *)
LineStart(t, p) == p = 0 \/ At(t, p - 1) = NL

(* The first index >= i that holds no whitespace other than a newline. *)
RECURSIVE SkipBlank(_, _)
SkipBlank(t, i) ==
  IF i < Len(t) /\ IsSpace(At(t, i)) /\ At(t, i) # NL THEN SkipBlank(t, i + 1) ELSE i

(* TAG_LINE_RE tried at p: ^\s*([A-Z]{3})\s*= .  The match's end (the index
   after the =), or -1. *)
TagLineAt(t, p) ==
  IF ~LineStart(t, p) THEN -1
  ELSE LET a == SkipSpace(t, p)
       IN IF a + 3 <= Len(t) /\ IsUpper(At(t, a)) /\ IsUpper(At(t, a + 1))
             /\ IsUpper(At(t, a + 2))
          THEN LET b == SkipSpace(t, a + 3)
               IN IF b < Len(t) /\ At(t, b) = "=" THEN b + 1 ELSE -1
          ELSE -1

(* group(1) of a TAG_LINE_RE or INLINE_NAME_RE match that starts at p *)
TagOfMatch(t, p) == Slice(t, SkipSpace(t, p), SkipSpace(t, p) + 3)

(* TAG_LINE_RE.finditer(text), from p on: <<group(1), end()>> of each match *)
RECURSIVE TagLineMatches(_, _)
TagLineMatches(t, p) ==
  IF p >= Len(t) THEN << >>
  ELSE IF TagLineAt(t, p) >= 0
       THEN << <<TagOfMatch(t, p), TagLineAt(t, p)>> >>
            \o TagLineMatches(t, TagLineAt(t, p))
       ELSE TagLineMatches(t, p + 1)

(* The tail ["\']\s*$ of INLINE_NAME_RE at q: a quote, then blanks up to the
   end of the line. *)
InlineTailAt(t, q) ==
  /\ q < Len(t)
  /\ IsQuote(At(t, q))
  /\ LET r == SkipBlank(t, q + 1) IN r = Len(t) \/ At(t, r) = NL

(* The lazy (.+?) of INLINE_NAME_RE: the first q >= from that closes the
   group, where . matches no newline; -1 when the line ends first. *)
RECURSIVE InlineClose(_, _)
InlineClose(t, q) ==
  IF q - 1 >= Len(t) \/ At(t, q - 1) = NL THEN -1
  ELSE IF InlineTailAt(t, q) THEN q
  ELSE InlineClose(t, q + 1)

(* INLINE_NAME_RE tried at p: <<index after the opening quote, index of the
   closing quote>>, or << >> when there is no match at p. *)
InlineAt(t, p) ==
  LET h == TagLineAt(t, p)
  IN IF h < 0 THEN << >>
     ELSE LET q0 == SkipSpace(t, h)
          IN IF q0 < Len(t) /\ IsQuote(At(t, q0)) /\ InlineClose(t, q0 + 2) >= 0
             THEN <<q0 + 1, InlineClose(t, q0 + 2)>>
             ELSE << >>

(* INLINE_NAME_RE.finditer(text), from p on: <<group(1), group(2).strip()>> of
   each match.  A match ends in the blanks after its closing quote, before
   the newline that ends that line or at the end of the text; the scan goes
   on from the end of that line, which finds the same later matches. *)
RECURSIVE InlineMatches(_, _)
InlineMatches(t, p) ==
  IF p >= Len(t) THEN << >>
  ELSE IF InlineAt(t, p) # << >>
       THEN LET m == InlineAt(t, p)
            IN << <<TagOfMatch(t, p), Strip(Slice(t, m[1], m[2]))>> >>
               \o InlineMatches(t, SkipBlank(t, m[2] + 1))
       ELSE InlineMatches(t, p + 1)

(* The first quote at an index >= q, or -1: where the lazy (.+?) of
   NAME_IN_BLOCK_RE stops under re.DOTALL. *)
RECURSIVE NextQuote(_, _)
NextQuote(t, q) ==
  IF q >= Len(t) THEN -1
  ELSE IF IsQuote(At(t, q)) THEN q
  ELSE NextQuote(t, q + 1)

(* NAME_IN_BLOCK_RE tried at p: name\s*=\s*["\'](.+?)["\'] under
   re.IGNORECASE | re.DOTALL.  group(1), or None. *)
NameAt(b, p) ==
  IF p + 4 <= Len(b) /\ Fold(At(b, p)) = "n" /\ Fold(At(b, p + 1)) = "a"
     /\ Fold(At(b, p + 2)) = "m" /\ Fold(At(b, p + 3)) = "e"
  THEN LET a == SkipSpace(b, p + 4)
       IN IF a < Len(b) /\ At(b, a) = "="
          THEN LET q0 == SkipSpace(b, a + 1)
               IN IF q0 < Len(b) /\ IsQuote(At(b, q0)) /\ NextQuote(b, q0 + 2) >= 0
                  THEN Slice(b, q0 + 1, NextQuote(b, q0 + 2))
                  ELSE None
          ELSE None
  ELSE None

(* NAME_IN_BLOCK_RE.search(block): group(1) of the leftmost match, or None *)
RECURSIVE NameSearch(_, _)
NameSearch(b, p) ==
  IF p >= Len(b) THEN None
  ELSE IF NameAt(b, p) # None THEN NameAt(b, p)
  ELSE NameSearch(b, p + 1)

(* s.replace('\n', ' ') *)
ReplaceNL(s) == [i \in 1..Len(s) |-> IF s[i] = NL THEN " " ELSE s[i]]

IsMarker(c) == c = "#" \/ c = "/"

(* re.search(r'[#/]{1,2}\s*(.+)$', line) for a line without newline: group(1)
   of the leftmost match, or None.  [#/]{1,2} and \s* are greedy and give
   back what (.+) needs. *)
RECURSIVE CommentTail(_, _)
CommentTail(line, j) ==
  IF j >= Len(line) THEN None
  ELSE IF ~IsMarker(At(line, j)) THEN CommentTail(line, j + 1)
  ELSE LET two == j + 1 < Len(line) /\ IsMarker(At(line, j + 1))
           k  == IF two THEN j + 2 ELSE j + 1
           k2 == SkipSpace(line, k)
       IN IF k2 < Len(line) THEN Slice(line, k2, Len(line))
          ELSE IF k2 > k THEN Slice(line, Len(line) - 1, Len(line))
          ELSE IF two THEN Slice(line, j + 1, Len(line))
          ELSE None

(* cname = s.lstrip('#').lstrip('/').strip() *)
CommentName(s) == Strip(LStripChar(LStripChar(s, "#"), "/"))

(* Python truth of a name: neither None nor the empty string. *)
Truthy(name) == name # None /\ name # << >>

(* The brace match: the index of the } that returns depth to 0, or -1
   (end_pos stays None). *)
RECURSIVE MatchBrace(_, _, _)
MatchBrace(t, i, depth) ==
  IF i >= Len(t) THEN -1
  ELSE IF At(t, i) = "{" THEN MatchBrace(t, i + 1, depth + 1)
  ELSE IF At(t, i) = "}"
       THEN IF depth - 1 = 0 THEN i ELSE MatchBrace(t, i + 1, depth - 1)
  ELSE MatchBrace(t, i + 1, depth)

----------------------------------------------------------------------------
(* generate_tags.py: find_tags_in_country_text                              *)

(* block_lines = [ln.strip() for ln in block.splitlines() if ln.strip()] *)
BlockLines(block) ==
  LET kept == SelectSeq(SplitLines(block), LAMBDA ln : Strip(ln) # << >>)
  IN [i \in 1..Len(kept) |-> Strip(kept[i])]

(* name_candidate as it stands before the brace match: the comment before
   the brace on its line, or else the comment line above it. *)
NameCandidate(text, open_pos) ==
  LET line_start == RFindChar(text, NL, open_pos) + 1
      line_until_brace == Slice(text, line_start, open_pos)
      cm == CommentTail(line_until_brace, 0)
      from_line == IF cm # None THEN Strip(cm) ELSE None
      prev_line_end == line_start - 1
      prev_line_start == RFindChar(text, NL, prev_line_end - 1) + 1
      prev_line == Strip(Slice(text, prev_line_start, prev_line_end))
  IN IF prev_line_end > 0 /\ IsCommentLine(prev_line) /\ CommentName(prev_line) # << >>
     THEN IF Truthy(from_line) THEN from_line ELSE CommentName(prev_line)
     ELSE from_line

(* TerminatedEntry with name_candidate tried before the name key. *)
TerminatedEntryCommentFirst(text, tag, open_pos, end_pos, name_candidate) ==
  LET block == Slice(text, open_pos + 1, end_pos)
      nm == NameSearch(block, 0)
  IN IF Truthy(name_candidate) THEN <<tag, name_candidate>>
     ELSE IF nm # None THEN <<tag, ReplaceNL(Strip(nm))>>
     ELSE <<tag, None>>

(* What the body under "if end_pos:" appends for the block that ends at
   end_pos. *)
TerminatedEntry(text, tag, open_pos, end_pos, name_candidate) ==
  LET block == Slice(text, open_pos + 1, end_pos)
      nm == NameSearch(block, 0)
      block_lines == BlockLines(block)
  IN IF nm # None THEN <<tag, ReplaceNL(Strip(nm))>>
     ELSE IF block_lines # << >> /\ IsCommentLine(block_lines[1])
             /\ CommentName(block_lines[1]) # << >>
          THEN <<tag, CommentName(block_lines[1])>>
     ELSE IF Truthy(name_candidate) THEN <<tag, name_candidate>>
     ELSE <<tag, None>>

(* What one iteration of the loop over TAG_LINE_RE.finditer(text) appends to
   entries, for the match of tag that ends at idx: one entry or none. *)
BlockEntries(text, tag, idx) ==
  LET first == SkipSpace(text, idx)
  IN IF first >= Len(text) THEN << >>
     ELSE IF At(text, first) # "{" THEN << <<tag, None>> >>
     ELSE LET open_pos == FindChar(text, "{", idx)
              end_pos == MatchBrace(text, open_pos, 0)
          IN IF end_pos > 0
             THEN << TerminatedEntry(text, tag, open_pos, end_pos,
                                     NameCandidate(text, open_pos)) >>
             ELSE << >>

RECURSIVE BlockScan(_, _)
BlockScan(text, ms) ==
  IF ms = << >> THEN << >>
  ELSE BlockEntries(text, ms[1][1], ms[1][2]) \o BlockScan(text, Tail(ms))

(* find_tags_in_country_text with the two scans in the other order. *)
FindTagsBlocksFirst(text) ==
  BlockScan(text, TagLineMatches(text, 0)) \o InlineMatches(text, 0)

(* The entries: every inline match, then what the block scan adds. *)
find_tags_in_country_text(text) ==
  InlineMatches(text, 0) \o BlockScan(text, TagLineMatches(text, 0))

----------------------------------------------------------------------------
(* Python dict, which keeps its keys in insertion order: a sequence of
   <<key, value>> with no key twice.                                        *)

HasKey(d, k) == \E i \in 1..Len(d) : d[i][1] = k

(* d[k] *)
Get(d, k) == d[CHOOSE i \in 1..Len(d) : d[i][1] = k][2]

(* d[k] = v *)
Put(d, k, v) ==
  IF HasKey(d, k)
  THEN [i \in 1..Len(d) |-> IF d[i][1] = k THEN <<k, v>> ELSE d[i]]
  ELSE Append(d, <<k, v>>)

(* d.setdefault(k, v) *)
SetDefault(d, k, v) == IF HasKey(d, k) THEN d ELSE Append(d, <<k, v>>)

(* sorted(S) for a set S of str *)
RECURSIVE Sorted(_)
Sorted(S) ==
  IF S = {} THEN << >>
  ELSE LET m == CHOOSE x \in S : \A y \in S : x = y \/ StrLess(x, y)
       IN <<m>> \o Sorted(S \ {m})

SeqRange(q) == {q[i] : i \in 1..Len(q)}

----------------------------------------------------------------------------
(* generate_tags.py: index_localization_files                               *)

(* The optional (?:\: ?\d+|\:)? of LOCALE_LINE_RE at i: the index after it. *)
RECURSIVE SkipDigits(_, _)
SkipDigits(t, i) ==
  IF i < Len(t) /\ (\E k \in 1..10 : Digits[k] = At(t, i)) THEN SkipDigits(t, i + 1) ELSE i

LocaleColonAt(t, i) ==
  IF i < Len(t) /\ At(t, i) = ":"
  THEN LET j == IF i + 1 < Len(t) /\ At(t, i + 1) = " " THEN i + 2 ELSE i + 1
       IN IF SkipDigits(t, j) > j THEN SkipDigits(t, j) ELSE i + 1
  ELSE i

(* The head ^\s*([A-Z]{3}) of both locale patterns tried at p: the index
   after the tag, or -1. *)
LocaleTagAt(t, p) ==
  IF ~LineStart(t, p) THEN -1
  ELSE LET a == SkipSpace(t, p)
       IN IF a + 3 <= Len(t) /\ IsUpper(At(t, a)) /\ IsUpper(At(t, a + 1))
             /\ IsUpper(At(t, a + 2))
          THEN a + 3 ELSE -1

(* LOCALE_LINE_RE tried at p: <<index after the opening quote, index of the
   closing quote>>, or << >>. *)
LocaleLineAt(t, p) ==
  LET h == LocaleTagAt(t, p)
  IN IF h < 0 THEN << >>
     ELSE LET q0 == SkipSpace(t, LocaleColonAt(t, SkipSpace(t, h)))
          IN IF q0 < Len(t) /\ IsQuote(At(t, q0)) /\ InlineClose(t, q0 + 2) >= 0
             THEN <<q0 + 1, InlineClose(t, q0 + 2)>>
             ELSE << >>

(* The tail "\s*$ of LOCALE_ALT_RE at q. *)
AltTailAt(t, q) ==
  /\ q < Len(t)
  /\ At(t, q) = DQ
  /\ LET r == SkipBlank(t, q + 1) IN r = Len(t) \/ At(t, r) = NL

RECURSIVE AltClose(_, _)
AltClose(t, q) ==
  IF q - 1 >= Len(t) \/ At(t, q - 1) = NL THEN -1
  ELSE IF AltTailAt(t, q) THEN q
  ELSE AltClose(t, q + 1)

(* LOCALE_ALT_RE tried at p: ^\s*([A-Z]{3})\s+"(.+?)"\s*$ *)
LocaleAltAt(t, p) ==
  LET h == LocaleTagAt(t, p)
  IN IF h < 0 THEN << >>
     ELSE LET q0 == SkipSpace(t, h)
          IN IF q0 > h /\ q0 < Len(t) /\ At(t, q0) = DQ /\ AltClose(t, q0 + 2) >= 0
             THEN <<q0 + 1, AltClose(t, q0 + 2)>>
             ELSE << >>

(* The loop over LOCALE_LINE_RE.finditer(text), from p on, on locales. *)
RECURSIVE IndexLines(_, _, _)
IndexLines(locales, t, p) ==
  IF p >= Len(t) THEN locales
  ELSE IF LocaleLineAt(t, p) # << >>
       THEN LET m == LocaleLineAt(t, p)
            IN IndexLines(SetDefault(locales, TagOfMatch(t, p), Strip(Slice(t, m[1], m[2]))),
                          t, SkipBlank(t, m[2] + 1))
       ELSE IndexLines(locales, t, p + 1)

(* The loop over LOCALE_ALT_RE.finditer(text), from p on, on locales. *)
RECURSIVE IndexAlt(_, _, _)
IndexAlt(locales, t, p) ==
  IF p >= Len(t) THEN locales
  ELSE IF LocaleAltAt(t, p) # << >>
       THEN LET m == LocaleAltAt(t, p)
            IN IndexAlt(SetDefault(locales, TagOfMatch(t, p), Strip(Slice(t, m[1], m[2]))),
                        t, SkipBlank(t, m[2] + 1))
       ELSE IndexAlt(locales, t, p + 1)

(* The loop over the sorted candidate paths, on the texts read from them. *)
RECURSIVE IndexFiles(_, _)
IndexFiles(locales, texts) ==
  IF texts = << >> THEN locales
  ELSE IndexFiles(IndexAlt(IndexLines(locales, texts[1], 0), texts[1], 0), Tail(texts))

(* index_localization_files, given the texts of the files its glob and its
   path filter select, in the order of their sorted paths. *)
index_localization_files(texts) == IndexFiles(<< >>, texts)

----------------------------------------------------------------------------
(* generate_tags.py: main                                                   *)

OUTPUT_BASENAME == <<"1","4","4","4","_","t","a","g","s",".","i","n","f","o">>

(* for tag, name in found: occurrences.setdefault(tag, []).append((fpath, name)) *)
RECURSIVE AddFound(_, _, _)
AddFound(occ, fpath, found) ==
  IF found = << >> THEN occ
  ELSE LET tag == found[1][1]
           sofar == IF HasKey(occ, tag) THEN Get(occ, tag) ELSE << >>
       IN AddFound(Put(occ, tag, Append(sofar, <<fpath, found[1][2]>>)), fpath, Tail(found))

(* One iteration of the loop over files. *)
ScanOne(occ, fpath, text) ==
  IF fpath = OUTPUT_BASENAME THEN occ
  ELSE AddFound(occ, fpath, find_tags_in_country_text(strip_inline_comments(text)))

(* chosen: the first name of entries that is true, or None *)
RECURSIVE Chosen(_)
Chosen(es) ==
  IF es = << >> THEN None
  ELSE IF Truthy(es[1][2]) THEN es[1][2]
  ELSE Chosen(Tail(es))

(* tag_map after the loop over occurrences.items() *)
ChooseNames(occ) == [i \in 1..Len(occ) |-> <<occ[i][1], Chosen(occ[i][2])>>]

(* LocaleFallback without the test of the name found so far. *)
LocaleFallbackAlways(tag_map, locales) ==
  [i \in 1..Len(tag_map) |->
     IF HasKey(locales, tag_map[i][1]) /\ Truthy(Get(locales, tag_map[i][1]))
     THEN <<tag_map[i][1], Get(locales, tag_map[i][1])>>
     ELSE tag_map[i]]

(* tag_map after the localization fallback *)
LocaleFallback(tag_map, locales) ==
  [i \in 1..Len(tag_map) |->
     IF ~Truthy(tag_map[i][2]) /\ HasKey(locales, tag_map[i][1])
        /\ Truthy(Get(locales, tag_map[i][1]))
     THEN <<tag_map[i][1], Get(locales, tag_map[i][1])>>
     ELSE tag_map[i]]

(* tag_map after the final fallback to the tag itself *)
TagFallback(tag_map) ==
  [i \in 1..Len(tag_map) |->
     IF ~Truthy(tag_map[i][2]) THEN <<tag_map[i][1], tag_map[i][1]>> ELSE tag_map[i]]

(* Duplicates by the number of distinct files instead of occurrences. *)
DuplicatesByFile(occ) ==
  SelectSeq(occ, LAMBDA kv : Cardinality({kv[2][i][1] : i \in 1..Len(kv[2])}) > 1)

(* duplicates = {tag: entries for tag, entries in occurrences.items()
                 if len(entries) > 1} *)
Duplicates(occ) == SelectSeq(occ, LAMBDA kv : Len(kv[2]) > 1)

(* os.path.relpath(fp) of a path that is already relative to the working
   directory and normalised, as the paths that glob returns are. *)
RelPath(fp) == fp

(* unique_files = sorted({os.path.relpath(fp) for fp, _ in duplicates[tag]}) *)
UniqueFiles(es) == Sorted({RelPath(es[i][1]) : i \in 1..Len(es)})

(* What the report prints for the duplicates, line by line. *)
RECURSIVE ReportLines(_, _)
ReportLines(dups, tags) ==
  IF tags = << >> THEN << >>
  ELSE LET ufs == UniqueFiles(Get(dups, tags[1]))
       IN << <<"tag", tags[1]>> >> \o [i \in 1..Len(ufs) |-> <<"file", ufs[i]>>]
          \o << <<"blank">> >> \o ReportLines(dups, Tail(tags))

Report(occ) ==
  LET dups == Duplicates(occ)
  IN IF dups # << >>
     THEN << <<"header">> >> \o ReportLines(dups, Sorted({dups[i][1] : i \in 1..Len(dups)}))
     ELSE << >>

----------------------------------------------------------------------------
(* generate_tags.py: write_tags_file                                        *)

header ==
  <<"A","l","l"," ","m","o","d","d","e","d"," ","t","a","g","s"," ","a","d","d","e","d",
    " ","t","o"," ","s","e","t","u","p"," ","i","n"," ","a","l","p","h","a","b","e","t",
    "i","c","a","l"," ","o","r","d","e","r",":">>

(* The keys in the order of their insertion. *)
KeysAsInserted(tag_map) == [i \in 1..Len(tag_map) |-> tag_map[i][1]]

(* sorted(tag_map.keys()) *)
SortedKeys(tag_map) == Sorted({tag_map[i][1] : i \in 1..Len(tag_map)})

(* f"{tag} - {name}" with name = tag_map[tag] or tag *)
TagLine(tag_map, tag) ==
  tag \o <<" ", "-", " ">> \o (IF Truthy(Get(tag_map, tag)) THEN Get(tag_map, tag) ELSE tag)

(* content = "\n".join(lines) + "\n" *)
Content(tag_map) ==
  LET keys == SortedKeys(tag_map)
      lines == <<header, << >> >> \o [i \in 1..Len(keys) |-> TagLine(tag_map, keys[i])]
  IN Join(lines, <<NL>>) \o <<NL>>

(* TmpPath that names the final path itself. *)
TmpPathSame(path) == path

(* tmp = path + '.tmp' *)
TmpPath(path) == path \o <<".", "t", "m", "p">>

(* os.replace(tmp, path) and os.rename(tmp, path) when they succeed: path
   takes the file of tmp and tmp is no name any more; nothing happens when
   the two are one name. *)
Moved(fs, tmp, path) ==
  IF tmp = path THEN fs ELSE [fs EXCEPT ![path] = fs[tmp], ![tmp] = None]

----------------------------------------------------------------------------
(* cleanup_invalid_tags.py                                                  *)

(* p in t *)
Contains(t, p) == \E i \in 0..(Len(t) - Len(p)) : Slice(t, i, i + Len(p)) = p

(* t.count(p): the occurrences of p from the left that do not overlap *)
RECURSIVE CountFrom(_, _, _)
CountFrom(t, p, i) ==
  IF i + Len(p) > Len(t) THEN 0
  ELSE IF Slice(t, i, i + Len(p)) = p THEN 1 + CountFrom(t, p, i + Len(p))
  ELSE CountFrom(t, p, i + 1)

Count(t, p) == CountFrom(t, p, 0)

(* f.readlines(), and the lines of for line in f: each with its terminator *)
RECURSIVE ReadLinesFrom(_, _, _)
ReadLinesFrom(t, start, i) ==
  IF i >= Len(t)
  THEN IF start < Len(t) THEN << Slice(t, start, Len(t)) >> ELSE << >>
  ELSE IF At(t, i) = NL
       THEN << Slice(t, start, i + 1) >> \o ReadLinesFrom(t, i + 1, i + 1)
       ELSE ReadLinesFrom(t, start, i + 1)

ReadLines(t) == ReadLinesFrom(t, 0, 0)

(* \b at index i of t *)
Boundary(t, i) ==
  (i > 0 /\ IsWord(At(t, i - 1))) # (i < Len(t) /\ IsWord(At(t, i)))

(* [A-Z]{2,3} followed by \b at index i: the index after it, or -1.  Three
   letters are tried before two. *)
UpperRun(t, i) ==
  IF i + 3 <= Len(t) /\ IsUpper(At(t, i)) /\ IsUpper(At(t, i + 1)) /\ IsUpper(At(t, i + 2))
     /\ Boundary(t, i + 3)
  THEN i + 3
  ELSE IF i + 2 <= Len(t) /\ IsUpper(At(t, i)) /\ IsUpper(At(t, i + 1)) /\ Boundary(t, i + 2)
  THEN i + 2
  ELSE -1

CountryDoesNotExist ==
  <<"C","o","u","n","t","r","y","D","o","e","s","N","o","t","E","x","i","s","t">>

(* .*CountryDoesNotExist from index i: the text is found before the end of
   the line, which . does not cross *)
RestHas(t, i, p) ==
  LET nl == FindChar(t, NL, i)
  IN Contains(Slice(t, i, IF nl < 0 THEN Len(t) ELSE nl), p)

(* pattern.search(line) of extract_tags_from_log: group 1, or None *)
RECURSIVE OrgTagFrom(_, _)
OrgTagFrom(line, i) ==
  IF i + 2 > Len(line) THEN None
  ELSE IF Slice(line, i, i + 2) = <<"]", ":">>
          /\ UpperRun(line, SkipSpace(line, i + 2)) >= 0
          /\ RestHas(line, UpperRun(line, SkipSpace(line, i + 2)), CountryDoesNotExist)
       THEN Slice(line, SkipSpace(line, i + 2), UpperRun(line, SkipSpace(line, i + 2)))
       ELSE OrgTagFrom(line, i + 1)

OrgSearch(line) == OrgTagFrom(line, 0)

(* extract_tags_from_log, of a log that exists *)
extract_tags_from_log(log) ==
  {OrgSearch(line) : line \in {l \in SeqRange(ReadLines(log)) :
                                 Contains(l, CountryDoesNotExist) /\ OrgSearch(l) # None}}

DependencyWith ==
  <<"D","e","p","e","n","d","e","n","c","y"," ","w","i","t","h"," ",
    "n","o","n","-","e","x","i","s","t","e","n","t">>
DependencySubject == DependencyWith \o <<" ","s","u","b","j","e","c","t">>
DependencyOverlord == DependencyWith \o <<" ","o","v","e","r","l","o","r","d">>

(* \(([A-Z]{2,3})\) at index i: the index after the letters, or -1 *)
ParenTag(t, i) ==
  IF i < 0 THEN -1
  ELSE IF i + 4 < Len(t) /\ IsUpper(At(t, i + 1)) /\ IsUpper(At(t, i + 2))
          /\ IsUpper(At(t, i + 3)) /\ At(t, i + 4) = ")"
  THEN i + 4
  ELSE IF i + 3 < Len(t) /\ IsUpper(At(t, i + 1)) /\ IsUpper(At(t, i + 2))
          /\ At(t, i + 3) = ")"
  THEN i + 3
  ELSE -1

(* The match of the dependency pattern that starts at index i with the
   words head: [^\(]* runs to the first parenthesis after them. *)
DepAt(line, i, head) ==
  IF Slice(line, i, i + Len(head)) = head
     /\ ParenTag(line, FindChar(line, "(", i + Len(head))) >= 0
  THEN Slice(line, FindChar(line, "(", i + Len(head)) + 1,
             ParenTag(line, FindChar(line, "(", i + Len(head))))
  ELSE None

(* pattern.search(line) of extract_dependency_tags_from_log: group 1, or None *)
RECURSIVE DepTagFrom(_, _)
DepTagFrom(line, i) ==
  IF i >= Len(line) THEN None
  ELSE IF DepAt(line, i, DependencySubject) # None THEN DepAt(line, i, DependencySubject)
  ELSE IF DepAt(line, i, DependencyOverlord) # None THEN DepAt(line, i, DependencyOverlord)
  ELSE DepTagFrom(line, i + 1)

DepSearch(line) == DepTagFrom(line, 0)

(* extract_dependency_tags_from_log, of a log that exists *)
extract_dependency_tags_from_log(log) ==
  {DepSearch(line) : line \in {l \in SeqRange(ReadLines(log)) :
                                 Contains(l, DependencyWith) /\ DepSearch(l) # None}}

(* sum(...) of the numbers of a sequence *)
RECURSIVE SumSeq(_)
SumSeq(ns) == IF ns = << >> THEN 0 ELSE Head(ns) + SumSeq(Tail(ns))

(* sum(data.count(tag) for tag in tags) *)
SumCounts(data, tags) ==
  LET order == Sorted(tags) IN SumSeq([i \in 1..Len(order) |-> Count(data, order[i])])

(* count_tag_occurrences_in_file; data is None when there is no file *)
count_tag_occurrences_in_file(data, tags) ==
  IF data = None THEN 0 ELSE SumCounts(data, tags)

(* re.search(r"\b" + re.escape(tag) + r"\b", line) *)
HasWord(line, tag) ==
  \E i \in 0..(Len(line) - Len(tag)) :
    Slice(line, i, i + Len(tag)) = tag /\ Boundary(line, i) /\ Boundary(line, i + Len(tag))

AnyWord(line, tags) == \E tag \in tags : HasWord(line, tag)

(* count_lines_with_tags_in_file *)
count_lines_with_tags_in_file(data, tags) ==
  IF data = None THEN 0
  ELSE Cardinality({k \in 1..Len(ReadLines(data)) : AnyWord(ReadLines(data)[k], tags)})

(* keep, joined as f.writelines(keep) writes it *)
KeepLines(data, tags) ==
  Join(SelectSeq(ReadLines(data), LAMBDA line : ~AnyWord(line, tags)), << >>)

(* re.sub(r"\b" + re.escape(tag) + r"\b", "", data) *)
RECURSIVE SubFrom(_, _, _)
SubFrom(data, tag, i) ==
  IF i >= Len(data) THEN << >>
  ELSE IF Slice(data, i, i + Len(tag)) = tag /\ Boundary(data, i)
          /\ Boundary(data, i + Len(tag))
       THEN SubFrom(data, tag, i + Len(tag))
       ELSE <<At(data, i)>> \o SubFrom(data, tag, i + 1)

(* sorted(tags, key=lambda s: (-len(s), s)) *)
RECURSIVE LongestFirst(_)
LongestFirst(tags) ==
  IF tags = {} THEN << >>
  ELSE LET first == CHOOSE x \in tags : \A y \in tags \ {x} :
                      Len(x) > Len(y) \/ (Len(x) = Len(y) /\ StrLess(x, y))
       IN <<first>> \o LongestFirst(tags \ {first})

(* The loop of remove_tags_from_file over the sorted tags. *)
RECURSIVE SubAll(_, _)
SubAll(data, tags) ==
  IF tags = << >> THEN data ELSE SubAll(SubFrom(data, tags[1], 0), Tail(tags))

(* removed_count *)
RemovedCount(original, data, tags) ==
  SumCounts(original, tags) - SumCounts(data, tags)

----------------------------------------------------------------------------
(* The lines country files are written from.                                *)

ABC == <<"A","B","C">>
XYZ == <<"X","Y","Z">>

(* ABC = { *)
LineOpen == <<"A","B","C"," ","="," ","{">>
(* ABC = { # Km *)
LineOpenHash == <<"A","B","C"," ","="," ","{"," ","#"," ","K","m">>
(* ABC = { // Sl *)
LineOpenSlash == <<"A","B","C"," ","="," ","{"," ","/","/"," ","S","l">>
(* # Kx *)
LineComment == <<"#"," ","K","x">>
(*  name = "Ot" } *)
LineNameClose == <<" ","n","a","m","e"," ","="," ",DQ,"O","t",DQ," ","}">>
(* } *)
LineClose == <<"}">>
(* ABC = "a # b" *)
LineInlineQuoted == <<"A","B","C"," ","="," ",DQ,"a"," ","#"," ","b",DQ>>
(* XYZ = 'v' # c *)
LineInlineTrailing == <<"X","Y","Z"," ","="," ",SQ,"v",SQ," ","#"," ","c">>
(* XYZ = it's # x *)
LineBareApostrophe == <<"X","Y","Z"," ","="," ","i","t",SQ,"s"," ","#"," ","x">>
LineEmpty == << >>

TextLines ==
  {LineOpen, LineOpenHash, LineOpenSlash, LineComment, LineNameClose, LineClose,
   LineInlineQuoted, LineInlineTrailing, LineBareApostrophe, LineEmpty}

(* The most lines a source text has. *)
MaxLines == 3

TextSrcs == UNION {[1..n -> TextLines] : n \in 0..MaxLines}

Kx == <<"K","x">>
Km == <<"K","m">>
Ot == <<"O","t">>

----------------------------------------------------------------------------
(* The files the generator is run on.                                       *)

PathA == <<"a",".","t","x","t">>
PathB == <<"b",".","t","x","t">>

(* ABC = "In" *)
MInline == <<"A","B","C"," ","="," ",DQ,"I","n",DQ>>
(* ABC = { name = "Ot" } *)
MNamed == <<"A","B","C"," ","="," ","{"," ","n","a","m","e"," ","="," ",DQ,"O","t",DQ," ","}">>
(* XYZ = { } *)
MPlain == <<"X","Y","Z"," ","="," ","{"," ","}">>
(* XYZ = { *)
MOpen == <<"X","Y","Z"," ","="," ","{">>
(* ABC = { name = " " } *)
MBlank == <<"A","B","C"," ","="," ","{"," ","n","a","m","e"," ","="," ",DQ," ",DQ," ","}">>

MainLines == {MInline, MNamed, MPlain, MOpen, MBlank}

(* The most lines a country file has. *)
MaxFileLines == 2

FileSrcs == UNION {[1..n -> MainLines] : n \in 0..MaxFileLines}

(* ABC: "Lo" *)
LocaleA == <<"A","B","C",":"," ",DQ,"L","o",DQ>>
(* ABC "Lb"
    XYZ:0 'Lx' *)
LocaleB == <<"A","B","C"," ",DQ,"L","b",DQ,NL," ","X","Y","Z",":","0"," ",SQ,"L","x",SQ>>

(* What the localization roots hold: nothing, or two files. *)
LocaleDirs == {<< >>, <<LocaleA, LocaleB>>}

In == <<"I","n">>
Lo == <<"L","o">>
Lx == <<"L","x">>

----------------------------------------------------------------------------
VARIABLES
  tsrc,       \* the lines of the file that read_text returns, joined by NL
  stripped,   \* txt after strip_inline_comments
  entries,    \* found
  tpc         \* "read", "stripped", "found"

VARIABLES
  dir,          \* the country files: path -> lines
  pc,           \* where main is
  files,        \* files
  fidx,         \* how many of files the loop has scanned
  occurrences,  \* occurrences
  tag_map,      \* tag_map
  locales,      \* locales
  registry,     \* the content of OUTPUT_PATH, None while there is no such file
  printed       \* what main has printed

VARIABLES
  wmap,      \* the tag_map that write_tags_file is given
  fs,        \* the directory of the registry: name -> content, None for no file
  wpc,       \* where write_tags_file is
  wrun,      \* how many times the writer has been started
  old,       \* the content of the registry when this run started
  removed,   \* whether this run has removed the registry in its fallback
  outs       \* the content of the registry after each run that ended

VARIABLES
  args,      \* args of the removal tool: dry_run, no_backup
  log,       \* the text of the log, None for no file
  disk,      \* the two target files: name -> content, None for no file
  cpc,       \* where main of the removal tool is
  tags,      \* tags
  dep_tags,  \* dep_tags
  out,       \* what the tool has printed
  written,   \* the target files the tool has opened for writing
  baks       \* the backups the tool has made: name of the file -> content

vars_text == <<tsrc, stripped, entries, tpc>>
vars_main == <<dir, pc, files, fidx, occurrences, tag_map, locales, registry, printed>>
vars_write == <<wmap, fs, wpc, wrun, old, removed, outs>>
vars_clean == <<args, log, disk, cpc, tags, dep_tags, out, written, baks>>
vars == <<vars_text, vars_main, vars_write, vars_clean>>

TextIdle == tsrc = << >> /\ stripped = << >> /\ entries = << >> /\ tpc = "idle"

MainIdle ==
  /\ dir = << >> /\ pc = "idle" /\ files = << >> /\ fidx = 0 /\ occurrences = << >>
  /\ tag_map = << >> /\ locales = << >> /\ registry = None /\ printed = << >>

WriteIdle ==
  /\ wmap = << >> /\ fs = << >> /\ wpc = "idle" /\ wrun = 0 /\ old = None
  /\ removed = FALSE /\ outs = << >>

CleanIdle ==
  /\ args = << >> /\ log = None /\ disk = << >> /\ cpc = "idle" /\ tags = {}
  /\ dep_tags = {} /\ out = << >> /\ written = {} /\ baks = << >>

----------------------------------------------------------------------------
(* One source text through main's two calls: strip_inline_comments, then
   find_tags_in_country_text.                                               *)

txt == Join(tsrc, <<NL>>)

InitText ==
  /\ tsrc \in TextSrcs
  /\ stripped = << >>
  /\ entries = << >>
  /\ tpc = "read"
  /\ MainIdle /\ WriteIdle /\ CleanIdle

StripComments ==
  /\ tpc = "read"
  /\ stripped' = strip_inline_comments(txt)
  /\ tpc' = "stripped"
  /\ UNCHANGED <<tsrc, entries, vars_main, vars_write, vars_clean>>

FindTags ==
  /\ tpc = "stripped"
  /\ entries' = find_tags_in_country_text(stripped)
  /\ tpc' = "found"
  /\ UNCHANGED <<tsrc, stripped, vars_main, vars_write, vars_clean>>

NextText == StripComments \/ FindTags

SpecText == InitText /\ [][NextText]_vars

----------------------------------------------------------------------------
(* main of generate_tags.py, a step for each of its loops and calls.        *)

InitMain ==
  /\ dir \in [{PathA, PathB} -> FileSrcs]
  /\ pc = "glob"
  /\ files = << >>
  /\ fidx = 0
  /\ occurrences = << >>
  /\ tag_map = << >>
  /\ locales = << >>
  /\ registry = None
  /\ printed = << >>
  /\ TextIdle /\ WriteIdle /\ CleanIdle

(* files = sorted(glob(...)): glob returns the paths in any order. *)
SortedGlob(listing) == Sorted(SeqRange(listing))

GlobFiles ==
  /\ pc = "glob"
  /\ \E listing \in {<<PathA, PathB>>, <<PathB, PathA>>} : files' = SortedGlob(listing)
  /\ pc' = "scan"
  /\ UNCHANGED <<dir, fidx, occurrences, tag_map, locales, registry, printed, vars_text, vars_write, vars_clean>>

ScanFile ==
  /\ pc = "scan"
  /\ fidx < Len(files)
  /\ occurrences' = ScanOne(occurrences, files[fidx + 1], Join(dir[files[fidx + 1]], <<NL>>))
  /\ fidx' = fidx + 1
  /\ UNCHANGED <<dir, pc, files, tag_map, locales, registry, printed, vars_text, vars_write, vars_clean>>

ChooseDisplayNames ==
  /\ pc = "scan"
  /\ fidx = Len(files)
  /\ tag_map' = ChooseNames(occurrences)
  /\ pc' = "locale"
  /\ UNCHANGED <<dir, files, fidx, occurrences, locales, registry, printed, vars_text, vars_write, vars_clean>>

LocalizationFallback ==
  /\ pc = "locale"
  /\ \E texts \in LocaleDirs : locales' = index_localization_files(texts)
  /\ tag_map' = LocaleFallback(tag_map, locales')
  /\ pc' = "fallback"
  /\ UNCHANGED <<dir, files, fidx, occurrences, registry, printed, vars_text, vars_write, vars_clean>>

FinalFallback ==
  /\ pc = "fallback"
  /\ tag_map' = TagFallback(tag_map)
  /\ pc' = "write"
  /\ UNCHANGED <<dir, files, fidx, occurrences, locales, registry, printed, vars_text, vars_write, vars_clean>>

(* write_tags_file(OUTPUT_PATH, tag_map), run to its end. *)
WriteRegistry ==
  /\ pc = "write"
  /\ registry' = Content(tag_map)
  /\ pc' = "report"
  /\ UNCHANGED <<dir, files, fidx, occurrences, tag_map, locales, printed, vars_text, vars_write, vars_clean>>

ReportDuplicates ==
  /\ pc = "report"
  /\ printed' = Report(occurrences)
  /\ pc' = "done"
  /\ UNCHANGED <<dir, files, fidx, occurrences, tag_map, locales, registry, vars_text, vars_write, vars_clean>>

NextMain ==
  \/ GlobFiles
  \/ ScanFile
  \/ ChooseDisplayNames
  \/ LocalizationFallback
  \/ FinalFallback
  \/ WriteRegistry
  \/ ReportDuplicates

SpecMain == InitMain /\ [][NextMain]_vars

----------------------------------------------------------------------------
(* write_tags_file, a step for each of its system calls; the process can be
   stopped between any two of them, and the writer can be run again.        *)

ABD == <<"A","B","D">>

(* The entries that tag maps are made of. *)
Entries == {<<ABC, Ot>>, <<ABD, None>>, <<XYZ, In>>}

(* Every tag map of some of the entries, in every order of insertion. *)
WriteMaps ==
  {m \in UNION {[1..n -> Entries] : n \in 0..Cardinality(Entries)} :
     \A i \in 1..Len(m) : \A j \in 1..Len(m) : i # j => m[i] # m[j]}

(* The tag maps with the entries of m. *)
Reorderings(m) == {r \in [1..Len(m) -> SeqRange(m)] : SeqRange(r) = SeqRange(m)}

(* A registry of an earlier day, and a file left under the name of tmp. *)
OldRegistry == <<"X","Y","Z"," ","-"," ","O","l","d",NL>>
Leftover == <<"l","e","f","t">>

(* How many times the writer is run. *)
MaxRuns == 2

Tmp == TmpPath(OUTPUT_BASENAME)

InitWrite ==
  /\ wmap \in WriteMaps
  /\ \E before \in {None, OldRegistry} : \E left \in {None, Leftover} :
       fs = [name \in {OUTPUT_BASENAME, Tmp} |->
               IF name = OUTPUT_BASENAME THEN before ELSE left]
  /\ wpc = "start"
  /\ wrun = 1
  /\ old = fs[OUTPUT_BASENAME]
  /\ removed = FALSE
  /\ outs = << >>
  /\ TextIdle /\ MainIdle /\ CleanIdle

(* io.open(tmp, 'w'): the file is made, or cut to nothing. *)
OpenTmp ==
  /\ wpc = "start"
  /\ fs' = [fs EXCEPT ![Tmp] = << >>]
  /\ wpc' = "open"
  /\ UNCHANGED <<wmap, wrun, old, removed, outs, vars_text, vars_main, vars_clean>>

(* f.write(content): some more of content reaches the file. *)
WriteSome ==
  /\ wpc = "open"
  /\ \E n \in (Len(fs[Tmp]) + 1)..(Len(Content(wmap)) - 1) :
       fs' = [fs EXCEPT ![Tmp] = Slice(Content(wmap), 0, n)]
  /\ UNCHANGED <<wmap, wpc, wrun, old, removed, outs, vars_text, vars_main, vars_clean>>

(* The end of the with block: the rest of content reaches the file. *)
CloseTmp ==
  /\ wpc = "open"
  /\ fs' = [fs EXCEPT ![Tmp] = Content(wmap)]
  /\ wpc' = "closed"
  /\ UNCHANGED <<wmap, wrun, old, removed, outs, vars_text, vars_main, vars_clean>>

(* os.replace(tmp, path) *)
Replace ==
  /\ wpc = "closed"
  /\ fs' = Moved(fs, Tmp, OUTPUT_BASENAME)
  /\ wpc' = "done"
  /\ outs' = Append(outs, fs'[OUTPUT_BASENAME])
  /\ UNCHANGED <<wmap, wrun, old, removed, vars_text, vars_main, vars_clean>>

(* os.replace raises. *)
ReplaceFails ==
  /\ wpc = "closed"
  /\ wpc' = "except"
  /\ UNCHANGED <<wmap, fs, wrun, old, removed, outs, vars_text, vars_main, vars_clean>>

(* if os.path.exists(path): os.remove(path) *)
FallbackRemove ==
  /\ wpc = "except"
  /\ IF fs[OUTPUT_BASENAME] # None
     THEN fs' = [fs EXCEPT ![OUTPUT_BASENAME] = None] /\ removed' = TRUE
     ELSE UNCHANGED <<fs, removed>>
  /\ wpc' = "rename"
  /\ UNCHANGED <<wmap, wrun, old, outs, vars_text, vars_main, vars_clean>>

(* os.remove raises, and write_tags_file with it. *)
RemoveFails ==
  /\ wpc = "except"
  /\ fs[OUTPUT_BASENAME] # None
  /\ wpc' = "failed"
  /\ UNCHANGED <<wmap, fs, wrun, old, removed, outs, vars_text, vars_main, vars_clean>>

(* os.rename(tmp, path) *)
FallbackRename ==
  /\ wpc = "rename"
  /\ fs[Tmp] # None
  /\ fs' = Moved(fs, Tmp, OUTPUT_BASENAME)
  /\ wpc' = "done"
  /\ outs' = Append(outs, fs'[OUTPUT_BASENAME])
  /\ UNCHANGED <<wmap, wrun, old, removed, vars_text, vars_main, vars_clean>>

(* os.rename raises, and write_tags_file with it. *)
RenameFails ==
  /\ wpc = "rename"
  /\ wpc' = "failed"
  /\ UNCHANGED <<wmap, fs, wrun, old, removed, outs, vars_text, vars_main, vars_clean>>

(* The process is stopped before the rename onto path. *)
Interrupt ==
  /\ wpc \in {"start", "open", "closed", "except", "rename"}
  /\ wpc' = "interrupted"
  /\ UNCHANGED <<wmap, fs, wrun, old, removed, outs, vars_text, vars_main, vars_clean>>

(* The generator is run again on the same inputs: the same entries, put
   into the map in any order. *)
Rerun ==
  /\ wpc = "done"
  /\ wrun < MaxRuns
  /\ wmap' \in Reorderings(wmap)
  /\ wpc' = "start"
  /\ wrun' = wrun + 1
  /\ old' = fs[OUTPUT_BASENAME]
  /\ removed' = FALSE
  /\ UNCHANGED <<fs, outs, vars_text, vars_main, vars_clean>>

NextWrite ==
  \/ OpenTmp
  \/ WriteSome
  \/ CloseTmp
  \/ Replace
  \/ ReplaceFails
  \/ FallbackRemove
  \/ RemoveFails
  \/ FallbackRename
  \/ RenameFails
  \/ Interrupt
  \/ Rerun

SpecWrite == InitWrite /\ [][NextWrite]_vars

----------------------------------------------------------------------------
(* main of cleanup_invalid_tags.py.                                         *)

GRF == <<"G","R","F">>
CWM == <<"C","W","M">>

(* [a]: GRF is out (CountryDoesNotExist) *)
LogOrg ==
  <<"[","a","]",":"," ">> \o GRF \o <<" ","i","s"," ","o","u","t"," ","(">>
  \o CountryDoesNotExist \o <<")">>
(* ]: GRFX CountryDoesNotExist *)
LogOrgLong == <<"]",":"," ">> \o GRF \o <<"X"," ">> \o CountryDoesNotExist
(* Dependency with non-existent subject (CWM) *)
LogDep == DependencySubject \o <<" ","(">> \o CWM \o <<")">>
(* ok *)
LogOther == <<"o","k">>

LogLines == {LogOrg, LogOrgLong, LogDep, LogOther}

(* The most lines a log has. *)
MaxLogLines == 2

(* The logs: no file, or lines that each end in a newline. *)
Logs ==
  {None} \cup {Join([i \in 1..Len(ls) |-> ls[i] \o <<NL>>], << >>) :
                 ls \in UNION {[1..n -> LogLines] : n \in 0..MaxLogLines}}

org_path == "15_international_organizations.txt"
diplomacy_path == "12_diplomacy.txt"

(* m = { GRF CWM }
   GRFX GRF *)
OrgText ==
  <<"m"," ","="," ","{"," ">> \o GRF \o <<" ">> \o CWM \o <<" ","}",NL>>
  \o GRF \o <<"X"," ">> \o GRF \o <<NL>>
(* CWM = x
   ACWM
   GRF = y *)
DipText ==
  CWM \o <<" ","="," ","x",NL,"A">> \o CWM \o <<NL>> \o GRF \o <<" ","="," ","y",NL>>
(* m = { } *)
PlainText == <<"m"," ","="," ","{"," ","}",NL>>

InitCleanup ==
  /\ args \in [dry_run : BOOLEAN, no_backup : BOOLEAN]
  /\ log \in Logs
  /\ \E o \in {None, OrgText, PlainText} : \E d \in {None, DipText, PlainText} :
       disk = [name \in {org_path, diplomacy_path} |-> IF name = org_path THEN o ELSE d]
  /\ cpc = "start"
  /\ tags = {}
  /\ dep_tags = {}
  /\ out = << >>
  /\ written = {}
  /\ baks = [name \in {org_path, diplomacy_path} |-> None]
  /\ TextIdle /\ MainIdle /\ WriteIdle

(* tags = extract_tags_from_log(log_path)
   dep_tags = extract_dependency_tags_from_log(log_path) *)
ExtractTags ==
  /\ cpc = "start"
  /\ IF log = None
     THEN /\ out' = Append(out, <<"stderr", "log file not found">>)
          /\ cpc' = "exit 2"
          /\ UNCHANGED <<tags, dep_tags>>
     ELSE /\ tags' = extract_tags_from_log(log)
          /\ dep_tags' = extract_dependency_tags_from_log(log)
          /\ cpc' = "extracted"
          /\ UNCHANGED out
  /\ UNCHANGED <<args, log, disk, written, baks, vars_text, vars_main, vars_write>>

(* What main prints of the tags it found. *)
Found(kind, ts) ==
  << <<kind, Cardinality(ts)>> >> \o (IF ts # {} THEN << <<"list", Sorted(ts)>> >> ELSE << >>)

(* if not tags and not dep_tags: ... return, and the prints that follow *)
ReportTags ==
  /\ cpc = "extracted"
  /\ IF tags = {} /\ dep_tags = {}
     THEN out' = Append(out, <<"Nothing to do">>) /\ cpc' = "done"
     ELSE /\ out' = out \o Found("organization-tags", tags) \o Found("dependency-tags", dep_tags)
          /\ cpc' = "dry run?"
  /\ UNCHANGED <<args, log, disk, tags, dep_tags, written, baks,
                 vars_text, vars_main, vars_write>>

(* if args.dry_run: print(...); return *)
DryRunReturn ==
  /\ cpc = "dry run?"
  /\ IF args.dry_run
     THEN out' = Append(out, <<"Dry run: no file modifications">>) /\ cpc' = "done"
     ELSE UNCHANGED out /\ cpc' = "organizations"
  /\ UNCHANGED <<args, log, disk, tags, dep_tags, written, baks,
                 vars_text, vars_main, vars_write>>

(* What the second if args.dry_run: prints. *)
DryRunCounts ==
  << <<"Dry run: would remove tag occurrences",
       count_tag_occurrences_in_file(disk[org_path], tags)>>,
     <<"Dry run: would remove lines",
       count_lines_with_tags_in_file(disk[diplomacy_path], dep_tags)>>,
     <<"Dry run: no file modifications">> >>

(* The file a removal leaves at name, its backup and what main prints. *)
Rewrite(name, data, count, what) ==
  /\ disk' = [disk EXCEPT ![name] = data]
  /\ written' = written \cup {name}
  /\ baks' = IF ~args.no_backup THEN [baks EXCEPT ![name] = disk[name]] ELSE baks
  /\ out' = out \o << <<what, count>> >>
            \o (IF ~args.no_backup THEN << <<"Backup created", name>> >> ELSE << >>)

(* The second if args.dry_run:, and
   removed_count, bak = remove_tags_from_file(org_path, tags, ...) with the
   prints that follow *)
RemoveOrgTags ==
  /\ cpc = "organizations"
  /\ IF args.dry_run
     THEN /\ out' = out \o DryRunCounts
          /\ cpc' = "done"
          /\ UNCHANGED <<disk, written, baks>>
     ELSE IF tags = {}
     THEN /\ out' = Append(out, <<"Removed tag occurrences", 0>>)
          /\ cpc' = "diplomacy"
          /\ UNCHANGED <<disk, written, baks>>
     ELSE IF disk[org_path] = None
     THEN /\ out' = Append(out, <<"stderr", "organizations file not found">>)
          /\ cpc' = "exit 3"
          /\ UNCHANGED <<disk, written, baks>>
     ELSE LET data == SubAll(disk[org_path], LongestFirst(tags))
          IN /\ Rewrite(org_path, data, RemovedCount(disk[org_path], data, tags),
                        "Removed tag occurrences")
             /\ cpc' = "diplomacy"
  /\ UNCHANGED <<args, log, tags, dep_tags, vars_text, vars_main, vars_write>>

(* dip_removed, dip_bak = remove_lines_containing_tags(diplomacy_path,
   dep_tags, ...) with the prints that follow *)
RemoveDiplomacyLines ==
  /\ cpc = "diplomacy"
  /\ IF disk[diplomacy_path] = None
     THEN /\ out' = out \o << <<"stderr", "file not found">>, <<"Removed lines", 0>> >>
          /\ UNCHANGED <<disk, written, baks>>
     ELSE IF count_lines_with_tags_in_file(disk[diplomacy_path], dep_tags) = 0
     THEN /\ out' = Append(out, <<"Removed lines", 0>>)
          /\ UNCHANGED <<disk, written, baks>>
     ELSE Rewrite(diplomacy_path, KeepLines(disk[diplomacy_path], dep_tags),
                  count_lines_with_tags_in_file(disk[diplomacy_path], dep_tags),
                  "Removed lines")
  /\ cpc' = "done"
  /\ UNCHANGED <<args, log, tags, dep_tags, vars_text, vars_main, vars_write>>

NextCleanup ==
  \/ ExtractTags
  \/ ReportTags
  \/ DryRunReturn
  \/ RemoveOrgTags
  \/ RemoveDiplomacyLines

SpecCleanup == InitCleanup /\ [][NextCleanup]_vars

----------------------------------------------------------------------------
(* Properties of the text pipeline.                                         *)

InLines == SplitLines(txt)
OutLines == SplitLines(stripped)

(* The first index of line that holds no whitespace, 0 when there is none. *)
FirstInk(line) ==
  IF \E k \in 1..Len(line) : ~IsSpace(line[k])
  THEN CHOOSE k \in 1..Len(line) :
         ~IsSpace(line[k]) /\ \A j \in 1..(k - 1) : IsSpace(line[j])
  ELSE 0

(* The stripped form of line starts with a comment marker. *)
StartsComment(line) ==
  LET k == FirstInk(line)
  IN k > 0 /\ (line[k] = "#" \/ (k < Len(line) /\ line[k] = "/" /\ line[k + 1] = "/"))

(* The index of the first # of line, 0 when there is none. *)
FirstHash(line) ==
  IF \E k \in 1..Len(line) : line[k] = "#"
  THEN CHOOSE k \in 1..Len(line) :
         line[k] = "#" /\ \A j \in 1..(k - 1) : line[j] # "#"
  ELSE 0

EvenQuotesBefore(line, h) ==
  /\ Cardinality({j \in 1..(h - 1) : line[j] = DQ}) % 2 = 0
  /\ Cardinality({j \in 1..(h - 1) : line[j] = SQ}) % 2 = 0

(* res is what the rule for one line makes of line. *)
LineRule(line, res) ==
  IF StartsComment(line) THEN res = line
  ELSE IF FirstHash(line) > 0 /\ EvenQuotesBefore(line, FirstHash(line))
       THEN res = SubSeq(line, 1, FirstHash(line) - 1)
       ELSE res = line

(* C7, as stated: strip_inline_comments returns as many lines as it was
   given, in order, each a comment line unchanged, or cut at its first #
   exactly when the double quotes and the single quotes before that # are
   both even in number, and otherwise untouched. *)
C7_SameLineCount ==
  tpc # "read" =>
    /\ Len(OutLines) = Len(InLines)
    /\ \A i \in 1..Len(InLines) : LineRule(InLines[i], OutLines[i])

(* C7, amended: the lines come back in order, each by the rule above, except
   that an empty last line of the input is dropped. *)
C7_LinesButEmptyLast ==
  tpc # "read" =>
    LET n == IF InLines # << >> /\ InLines[Len(InLines)] = << >>
             THEN Len(InLines) - 1 ELSE Len(InLines)
    IN /\ Len(OutLines) = n
       /\ \A i \in 1..n : LineRule(InLines[i], OutLines[i])

(* A # inside a quoted string was kept on one line while another line was
   cut at its #. *)
C7_Witness ==
  /\ tpc = "stripped"
  /\ Len(OutLines) = Len(InLines)
  /\ \E i \in 1..Len(InLines) :
       /\ FirstHash(InLines[i]) > 0
       /\ ~EvenQuotesBefore(InLines[i], FirstHash(InLines[i]))
       /\ OutLines[i] = InLines[i]
  /\ \E i \in 1..Len(InLines) :
       /\ ~StartsComment(InLines[i])
       /\ Len(OutLines[i]) < Len(InLines[i])

EntriesOf(tag) == SelectSeq(entries, LAMBDA e : e[1] = tag)

(* Line i is the only line of the text that defines ABC. *)
OnlyDefinitionOfABC(i) ==
  \A j \in 1..Len(tsrc) :
    j # i => tsrc[j] \notin {LineOpen, LineOpenHash, LineOpenSlash, LineInlineQuoted}

(* C2, as stated: the comment on the opening-brace line, or else the comment
   line above it, is the candidate before the name key of the block is. *)
C2_CommentFirst ==
  tpc = "found" =>
    \A i \in 1..Len(tsrc) :
      OnlyDefinitionOfABC(i) /\ i < Len(tsrc) /\ tsrc[i + 1] = LineNameClose =>
        /\ tsrc[i] = LineOpenHash => EntriesOf(ABC) = << <<ABC, Km>> >>
        /\ tsrc[i] = LineOpen /\ i > 1 /\ tsrc[i - 1] = LineComment
             => EntriesOf(ABC) = << <<ABC, Kx>> >>
        /\ tsrc[i] = LineOpen /\ i = 1 => EntriesOf(ABC) = << <<ABC, Ot>> >>

(* C2, amended: the name key of a terminated block is the candidate whatever
   comment stands on the opening-brace line or above it; the comment line
   above supplies the candidate when the block has no name key and does not
   start with a comment. *)
C2_NameKeyFirst ==
  tpc = "found" =>
    \A i \in 1..Len(tsrc) :
      OnlyDefinitionOfABC(i) /\ i < Len(tsrc) =>
        /\ tsrc[i] \in {LineOpen, LineOpenHash, LineOpenSlash}
           /\ tsrc[i + 1] = LineNameClose
             => EntriesOf(ABC) = << <<ABC, Ot>> >>
        /\ tsrc[i] \in {LineOpen, LineOpenHash} /\ tsrc[i + 1] = LineClose
           /\ i > 1 /\ tsrc[i - 1] = LineComment
             => EntriesOf(ABC) = << <<ABC, Kx>> >>

(* A block with a comment above it, a comment on its opening-brace line and
   a name key was scanned. *)
C2_Witness ==
  /\ tpc = "found"
  /\ tsrc = <<LineComment, LineOpenHash, LineNameClose>>
  /\ entries = << <<ABC, Ot>> >>

(* C10: a block that no brace closes before the end of the text still gives
   an occurrence of its tag, and the definitions after it are extracted. *)
C10_UnterminatedRecorded ==
  tpc = "found" =>
    \A i \in 1..Len(tsrc) :
      /\ tsrc[i] \in {LineOpen, LineOpenHash, LineOpenSlash}
      /\ \A j \in (i + 1)..Len(tsrc) : tsrc[j] \notin {LineClose, LineNameClose}
      => /\ EntriesOf(ABC) # << >>
         /\ \A j \in (i + 1)..Len(tsrc) :
              tsrc[j] \in {LineInlineTrailing, LineBareApostrophe}
                => EntriesOf(XYZ) # << >>

----------------------------------------------------------------------------
(* Properties of main.                                                      *)

Paths == {PathA, PathB}

(* The tag that a line of a country file defines. *)
TagDefinedBy(line) == IF line \in {MInline, MNamed, MBlank} THEN ABC ELSE XYZ

(* The name a line gives its tag: In and Ot are written in the line, the
   blank name strips to the empty string, the other lines carry no name. *)
NameWrittenIn(line) ==
  IF line = MInline THEN In
  ELSE IF line = MNamed THEN Ot
  ELSE IF line = MBlank THEN << >>
  ELSE None

(* The first of names that is neither absent nor empty, or None. *)
RECURSIVE FirstNamed(_)
FirstNamed(names) ==
  IF names = << >> THEN None
  ELSE IF names[1] # None /\ names[1] # << >> THEN names[1]
  ELSE FirstNamed(Tail(names))

NamesOf(lines) == [i \in 1..Len(lines) |-> NameWrittenIn(lines[i])]

(* The lines of the file at path that define tag, in their order. *)
Defining(path, tag) == SelectSeq(dir[path], LAMBDA l : TagDefinedBy(l) = tag)

(* C1: every tag defined at the start of a line of a scanned file has
   exactly one entry in the tag map handed to write_tags_file, and that
   entry's name is not empty. *)
C1_EveryTagHasEntry ==
  pc \in {"write", "report", "done"} =>
    \A path \in Paths : \A i \in 1..Len(dir[path]) :
      LET tag == TagDefinedBy(dir[path][i])
      IN /\ Cardinality({k \in 1..Len(tag_map) : tag_map[k][1] = tag}) = 1
         /\ Get(tag_map, tag) # None
         /\ Get(tag_map, tag) # << >>

(* The files of the occurrences of tag. *)
FilesOf(tag) ==
  IF HasKey(occurrences, tag)
  THEN {Get(occurrences, tag)[i][1] : i \in 1..Len(Get(occurrences, tag))}
  ELSE {}

(* How many occurrences tag has. *)
CountOf(tag) == IF HasKey(occurrences, tag) THEN Len(Get(occurrences, tag)) ELSE 0

(* The places of printed that name tag. *)
Reported(tag) == {k \in 1..Len(printed) : printed[k] = <<"tag", tag>>}

(* The file lines printed right after place k. *)
RECURSIVE ListedAfter(_)
ListedAfter(k) ==
  IF k + 1 <= Len(printed) /\ printed[k + 1][1] = "file"
  THEN <<printed[k + 1][2]>> \o ListedAfter(k + 1)
  ELSE << >>

(* The files listed under tag are its distinct files, each once, ascending. *)
ListsFilesOnce(tag) ==
  \A k \in Reported(tag) :
    LET listed == ListedAfter(k)
    IN /\ SeqRange(listed) = FilesOf(tag)
       /\ Len(listed) = Cardinality(FilesOf(tag))
       /\ \A i \in 1..Len(listed) : \A j \in 1..Len(listed) :
            i < j => StrLess(listed[i], listed[j])

(* C3, as stated: a tag is in the duplicate report exactly when its
   occurrences come from more than one file, and its files are listed once
   each in sorted order. *)
C3_ReportedIffSeveralFiles ==
  pc = "done" =>
    \A tag \in {ABC, XYZ} :
      /\ Reported(tag) # {} <=> Cardinality(FilesOf(tag)) > 1
      /\ ListsFilesOnce(tag)

(* C3, amended: a tag is in the duplicate report exactly when it has more
   than one occurrence, in whatever files. *)
C3_ReportedIffSeveralOccurrences ==
  pc = "done" =>
    \A tag \in {ABC, XYZ} :
      /\ Reported(tag) # {} <=> CountOf(tag) > 1
      /\ Cardinality(Reported(tag)) <= 1
      /\ ListsFilesOnce(tag)

(* A tag defined in both files was reported with both of them. *)
C3_Witness ==
  /\ pc = "done"
  /\ \E tag \in {ABC, XYZ} : \E k \in Reported(tag) : ListedAfter(k) = <<PathA, PathB>>

(* C5, as stated: the name chosen for a tag is the first name among its
   definitions in the order of the sorted files and, within a file, of
   their appearance. *)
C5_FirstByAppearance ==
  pc = "locale" =>
    \A tag \in {ABC, XYZ} :
      HasKey(tag_map, tag) =>
        Get(tag_map, tag) =
          FirstNamed(NamesOf(Defining(PathA, tag)) \o NamesOf(Defining(PathB, tag)))

(* The names of the definitions of tag in one file in the order main sees
   them: those of the inline assignments, then those of the others. *)
InlineFirst(path, tag) ==
  NamesOf(SelectSeq(Defining(path, tag), LAMBDA l : l = MInline))
  \o NamesOf(SelectSeq(Defining(path, tag), LAMBDA l : l # MInline))

(* C5, amended: within a file the inline assignments come first, whatever
   their place in the text. *)
C5_FirstInlineThenBlocks ==
  pc = "locale" =>
    \A tag \in {ABC, XYZ} :
      HasKey(tag_map, tag) =>
        Get(tag_map, tag) = FirstNamed(InlineFirst(PathA, tag) \o InlineFirst(PathB, tag))

(* A named block followed by an inline assignment of the same tag. *)
C5_Witness ==
  /\ pc = "locale"
  /\ dir[PathA] = <<MNamed, MInline>>
  /\ Get(tag_map, ABC) = In

(* Some line of some file gives ABC a block with one of these lines. *)
SomeLineIn(S) == \E path \in Paths : \E i \in 1..Len(dir[path]) : dir[path][i] \in S

(* The name of ABC comes from its occurrences and not from the index. *)
NameFromOccurrences ==
  /\ \E i \in 1..Len(Get(occurrences, ABC)) :
       Get(tag_map, ABC) = Get(occurrences, ABC)[i][2]
  /\ HasKey(locales, ABC) => Get(tag_map, ABC) # Get(locales, ABC)

(* C6, as stated: a tag with a name key in a terminated block keeps a name
   from its occurrences, never the localization index's. *)
C6_NameKeyNeverOverridden ==
  pc \in {"write", "report", "done"} /\ SomeLineIn({MNamed, MBlank})
    => NameFromOccurrences

(* C6, amended: so it is when the value of the name key is not blank. *)
C6_NamedNeverOverridden ==
  pc \in {"write", "report", "done"} /\ SomeLineIn({MNamed})
    => NameFromOccurrences

(* A block with a name key, and an index entry for its tag. *)
C6_Witness ==
  /\ pc = "done"
  /\ SomeLineIn({MNamed})
  /\ HasKey(locales, ABC)
  /\ Get(tag_map, ABC) = Ot

----------------------------------------------------------------------------
(* Properties of write_tags_file.                                           *)

(* The rename onto the final path has not completed. *)
BeforeRename == wpc \in {"start", "open", "closed", "except", "rename", "interrupted", "failed"}

(* The final path holds nothing cut short: no file, the registry the run
   found, or the whole new content. *)
NeverPartial ==
  wpc # "idle" => fs[OUTPUT_BASENAME] \in {None, old, Content(wmap)}

(* C4, as stated: until the rename onto the final path completes, and so
   wherever the writer is interrupted, the final path holds the registry
   the run found; after it, the whole new content; never a part of one. *)
C4_OldUntilRename ==
  /\ BeforeRename => fs[OUTPUT_BASENAME] = old
  /\ wpc = "done" => fs[OUTPUT_BASENAME] = Content(wmap)
  /\ NeverPartial

(* C4, amended: so it is, except that from the os.remove of the fallback
   until its os.rename completes the final path names no file. *)
C4_OldOrRemovedUntilRename ==
  /\ BeforeRename => fs[OUTPUT_BASENAME] = (IF removed THEN None ELSE old)
  /\ wpc = "done" => fs[OUTPUT_BASENAME] = Content(wmap)
  /\ NeverPartial

(* A run stopped while tmp held a part of the content, the registry it
   found still in place. *)
C4_Witness ==
  /\ wpc = "interrupted"
  /\ old = OldRegistry
  /\ fs[OUTPUT_BASENAME] = OldRegistry
  /\ fs[Tmp] # None
  /\ 0 < Len(fs[Tmp]) /\ Len(fs[Tmp]) < Len(Content(wmap))
  /\ fs[Tmp] = Slice(Content(wmap), 0, Len(fs[Tmp]))

(* The keys of wmap. *)
Keys == {wmap[i][1] : i \in 1..Len(wmap)}

(* The line of the registry for tag: the tag, " - ", and its name, which
   is the tag itself when the map has none for it. *)
LineOf(tag) ==
  tag \o <<" ", "-", " ">>
  \o (IF Get(wmap, tag) \in {None, << >>} THEN tag ELSE Get(wmap, tag))

(* text is the header line, an empty line, and one line for each key in
   strictly ascending order of the keys, each line ended by a newline. *)
WellFormed(text) ==
  LET lines == SplitLines(text)
  IN /\ text # << >> /\ text[Len(text)] = NL
     /\ Len(lines) = 2 + Cardinality(Keys)
     /\ lines[1] = header
     /\ lines[2] = << >>
     /\ \A i \in 3..Len(lines) : \E tag \in Keys : lines[i] = LineOf(tag)
     /\ \A i \in 3..Len(lines) : \A j \in 3..Len(lines) :
          i < j => \E a \in Keys : \E b \in Keys :
                     lines[i] = LineOf(a) /\ lines[j] = LineOf(b) /\ StrLess(a, b)

(* C8: what write_tags_file has written is the header, an empty line and
   one TAG - Name line for each key in strictly ascending order, whatever
   the order of insertion, and every run on the same entries leaves the
   same bytes. *)
C8_SortedAndRepeatable ==
  wpc = "done" =>
    /\ WellFormed(fs[OUTPUT_BASENAME])
    /\ \A i \in 1..Len(outs) : outs[i] = fs[OUTPUT_BASENAME]

(* A second run has ended, on three entries inserted in descending order. *)
C8_Witness ==
  /\ wpc = "done"
  /\ wrun = 2
  /\ Len(outs) = 2
  /\ wmap = << <<XYZ, In>>, <<ABD, None>>, <<ABC, Ot>> >>

----------------------------------------------------------------------------
(* Properties of main of cleanup_invalid_tags.py.                           *)

(* main has printed line. *)
Printed(line) == \E i \in 1..Len(out) : out[i] = line

(* C9: a dry run on a log with a tag ends having printed how many tag
   occurrences it would remove from the organizations file and how many
   lines from the diplomacy file, with no target written and no backup. *)
C9_DryRunReportsCounts ==
  cpc = "done" /\ args.dry_run /\ tags \cup dep_tags # {} =>
    /\ Printed(<<"Dry run: would remove tag occurrences",
                 count_tag_occurrences_in_file(disk[org_path], tags)>>)
    /\ Printed(<<"Dry run: would remove lines",
                 count_lines_with_tags_in_file(disk[diplomacy_path], dep_tags)>>)
    /\ written = {}
    /\ \A name \in {org_path, diplomacy_path} : baks[name] = None

====
